---- MODULE Spec2Model ----
(***************************************************************************)
(* The client-side result caches of OrganInsight3D                         *)
(* (src/src/utils/diagnosis-cache.ts): the diagnosis cache (lines 23-423)  *)
(* and the 3D-model cache (lines 944-1313).  Both keep their entries and   *)
(* one index record in the browser's localStorage.                         *)
(*                                                                         *)
(* The model covers the browser environment (typeof window is not          *)
(* 'undefined').  A behaviour exercises one of the two caches, chosen in   *)
(* Init (inst); their storage keys have different prefixes, so neither     *)
(* touches the other's records.  Every public function is one action: the  *)
(* environment is single-threaded and no function awaits before its last   *)
(* storage access.  Date.now() is read once per action.  last holds what   *)
(* the latest call returned until the caller has taken it (Tick), with the *)
(* clock moved on or not; the next call starts after that.                 *)
(* generateAIModel (lines 767-847), the caller of the model cache, is an   *)
(* action too: it reads the cache before it awaits the external service.   *)
(*                                                                         *)
(* localStorage.setItem may throw (QuotaExceededError or another error).   *)
(* A behaviour runs either over a storage that accepts every write, with   *)
(* up to three cache keys, or over a storage where each setItem chooses    *)
(* its outcome freely, with up to two cache keys (writes, chosen in Init). *)
(* Operators that write return the SET of their possible outcomes.         *)
(* getItem and removeItem do not throw.                                    *)
(*                                                                         *)
(* The parameter c of an operator is the context of the call: c.inst is    *)
(* the cache ("diagnosis" or "model") and c.writes the outcomes a setItem  *)
(* of this call can have.                                                  *)
(***************************************************************************)
EXTENDS Integers, Sequences, FiniteSets, TLC

VARIABLES inst, writes, ls, now, last

vars == <<inst, writes, ls, now, last>>

(***************************************************************************)
(* Program constants.                                                      *)
(***************************************************************************)
DIAGNOSIS_CACHE_PREFIX == "diagnosis_cache_"
DIAGNOSIS_CACHE_INDEX_KEY == "diagnosis_cache_index"
DIAGNOSIS_CACHE_EXPIRY_DAYS == 30
MAX_DIAGNOSIS_CACHE_SIZE_MB == 10

CACHE_PREFIX == "organ_model_cache_"
CACHE_INDEX_KEY == "organ_model_cache_index"
CACHE_EXPIRY_DAYS == 7
MAX_CACHE_SIZE_MB == 50

sampleSize == 5000

(***************************************************************************)
(* Bounds.  The units of size and time are scaled: one "MB" of the model   *)
(* is BytesPerMB bytes (1024 * 1024 in the code) and one "day" is MsPerDay *)
(* clock ticks (24 * 60 * 60 * 1000 in the code).  The serialized size of  *)
(* a record is a function of its payload.                                  *)
(***************************************************************************)
BytesPerMB == 10
MsPerDay == 1
SmallDiagnosisBytes == 40
LargeDiagnosisBytes == 60
ModelRecordBytes == 200
ModelDataBytes == 100

(***************************************************************************)
(* Values.  A storage item is the string localStorage holds, seen through  *)
(* JSON.parse: "array" (the index), "object" (an entry record), "corrupt"  *)
(* (a string JSON.parse throws on) or Null (getItem returned null).        *)
(***************************************************************************)
Null == [kind |-> "null"]
Undefined == "undefined"
NoKey == "<none>"

Arr(keys) == [kind |-> "array", keys |-> keys]

(***************************************************************************)
(* generateImageHash (lines 40-62).  A string is a sequence of char codes. *)
(* The 32-bit accumulator is kept as two 16-bit limbs <<hi, lo>> of its    *)
(* value modulo 2^32, so that no intermediate exceeds 32 bits.             *)
(***************************************************************************)
Min(a, b) == IF a < b THEN a ELSE b
Max(a, b) == IF a > b THEN a ELSE b

\* String.prototype.substring(a, b): both clamped to [0, length], swapped if a > b.
substring(s, a, b) ==
    LET ca == Min(Max(a, 0), Len(s))
        cb == Min(Max(b, 0), Len(s))
        lo == Min(ca, cb)
        hi == Max(ca, cb)
    IN  SubSeq(s, lo + 1, hi)

RECURSIVE DecimalString(_)
\* Number.prototype.toString() of a non-negative integer, as char codes.
DecimalString(n) ==
    IF n < 10 THEN <<48 + n>>
    ELSE DecimalString(n \div 10) \o <<48 + (n % 10)>>

\* hash = ((hash << 5) - hash) + char; hash = hash & hash
HashStep(h, char) ==
    LET l  == h[2] * 31 + char
        hh == h[1] * 31 + (l \div 65536)
    IN  <<hh % 65536, l % 65536>>

RECURSIVE HashSpan(_, _, _, _, _)
\* for (let i = ...; i <= stop; i++) { char = str.charCodeAt(i); ... }
\* The same left fold over str[i..stop], taken block characters at a time
\* (1024, 32, 1) so that its evaluation stays shallow for a str of many
\* thousand characters.  h[1] is never negative: the test has h computed
\* before the fold goes on.
HashSpan(str, i, stop, h, block) ==
    IF i > stop \/ h[1] < 0 THEN h
    ELSE IF block = 1
    THEN HashSpan(str, i + 1, stop, HashStep(h, str[i]), 1)
    ELSE LET end == Min(i + block - 1, stop)
         IN  HashSpan(str, end + 1, stop,
                      HashSpan(str, i, end, h, block \div 32), block)

HashFold(str, i, h) == HashSpan(str, i, Len(str), h, 1024)

\* Math.abs of the signed 32-bit value whose bits are <<hi, lo>>.
MathAbs(h) ==
    IF h[1] < 32768 THEN h
    ELSE IF h[2] = 0 THEN <<65536 - h[1], 0>>
    ELSE <<65535 - h[1], 65536 - h[2]>>

Digits36 ==
    << "0", "1", "2", "3", "4", "5", "6", "7", "8", "9", "a", "b", "c", "d",
       "e", "f", "g", "h", "i", "j", "k", "l", "m", "n", "o", "p", "q", "r",
       "s", "t", "u", "v", "w", "x", "y", "z" >>

RECURSIVE ToString36(_)
\* Number.prototype.toString(36) of the non-negative value hi * 65536 + lo.
ToString36(m) ==
    LET t   == (m[1] % 36) * 65536 + m[2]
        q   == <<m[1] \div 36, t \div 36>>
        d   == Digits36[(t % 36) + 1]
    IN  IF q = <<0, 0>> THEN d ELSE ToString36(q) \o d

\* The hash with `let hash = Date.now()` for `let hash = 0`.
generateImageHash_Seeded(imageData) ==
    LET dataLength == Len(imageData)
        half == dataLength \div 2
        sections ==
            substring(imageData, 0, Min(sampleSize, dataLength))
            \o substring(imageData, half, half + Min(sampleSize, dataLength))
            \o substring(imageData, Max(0, dataLength - sampleSize), dataLength)
        str == sections \o DecimalString(dataLength)
    IN  ToString36(MathAbs(HashFold(str, 1, <<0, now>>)))

\* The hash over the whole input instead of the three samples.
generateImageHash_Whole(imageData) ==
    LET dataLength == Len(imageData)
        str == imageData \o DecimalString(dataLength)
    IN  ToString36(MathAbs(HashFold(str, 1, <<0, 0>>)))

generateImageHash(imageData) ==
    LET dataLength == Len(imageData)
        half == dataLength \div 2
        sections ==
            substring(imageData, 0, Min(sampleSize, dataLength))
            \o substring(imageData, half, half + Min(sampleSize, dataLength))
            \o substring(imageData, Max(0, dataLength - sampleSize), dataLength)
        str == sections \o DecimalString(dataLength)
    IN  ToString36(MathAbs(HashFold(str, 1, <<0, 0>>)))

\* String.prototype.toLowerCase on the organ names the model uses.
toLowerCase(s) ==
    CASE s = "Heart" -> "heart"
      [] s = "Lung" -> "lung"
      [] OTHER -> s

generateCacheKey(organName, score, service) ==
    toLowerCase(organName) \o "_" \o ToString(score) \o "_" \o service

(***************************************************************************)
(* The two cache instances.                                                *)
(***************************************************************************)
Instances == {"diagnosis", "model"}

Prefix(c) == IF c.inst = "diagnosis" THEN DIAGNOSIS_CACHE_PREFIX ELSE CACHE_PREFIX

IndexKey(c) == IF c.inst = "diagnosis" THEN DIAGNOSIS_CACHE_INDEX_KEY ELSE CACHE_INDEX_KEY

\* now + (EXPIRY_DAYS * 24 * 60 * 60 * 1000) - now
TTL(c) ==
    (IF c.inst = "diagnosis" THEN DIAGNOSIS_CACHE_EXPIRY_DAYS ELSE CACHE_EXPIRY_DAYS)
    * MsPerDay

\* The byte total at which getCacheSize() >= MAX_CACHE_SIZE_MB.
Budget(c) ==
    (IF c.inst = "diagnosis" THEN MAX_DIAGNOSIS_CACHE_SIZE_MB ELSE MAX_CACHE_SIZE_MB)
    * BytesPerMB

(***************************************************************************)
(* localStorage.  ls maps the storage keys that hold an item to the item.  *)
(***************************************************************************)
getItem(s, key) == IF key \in DOMAIN s THEN s[key] ELSE Null

\* The storage after a setItem that did not throw.
setItem(s, key, item) ==
    [k \in DOMAIN s \cup {key} |-> IF k = key THEN item ELSE s[k]]

removeItem(s, key) == [k \in DOMAIN s \ {key} |-> s[k]]

\* What a call of localStorage.setItem can do: return, or throw one of these.
Reliable == {"ok"}
Failing == {"ok", "QuotaExceededError", "Error"}
SetItemResults(c) == c.writes

\* JSON.parse(data) throws.
ParseThrows(item) == item.kind = "corrupt"

\* new Blob([data]).size of a stored item.
BlobSize(item) ==
    CASE item.kind \in {"corrupt", "value"} -> item.bytes
      [] item.kind = "array" -> 2 + Len(item.keys)
      [] item.kind = "object" /\ "modelUrl" \in DOMAIN item ->
            ModelRecordBytes
            + (IF "modelData" \in DOMAIN item THEN ModelDataBytes ELSE 0)
      [] item.kind = "object" /\ "diagnosis" \in DOMAIN item ->
            IF item.diagnosis.healthStatus = "Healthy"
            THEN SmallDiagnosisBytes ELSE LargeDiagnosisBytes
      [] OTHER -> 0

(***************************************************************************)
(* The index record (lines 74-117 and 971-1010).  getCacheIndex returns    *)
(* what JSON.parse made of the item: val when that is an array; when it is *)
(* another JSON value (isArray FALSE), the caller's for...of, includes or  *)
(* filter throws a TypeError.  A helper's result says whether an exception *)
(* left it (thrown); the helpers that write return the set of outcomes.    *)
(***************************************************************************)
getCacheIndex(c, s) ==
    LET index == getItem(s, IndexKey(c))
    IN  IF index.kind = "null" THEN [isArray |-> TRUE, val |-> <<>>]
        ELSE IF ParseThrows(index) THEN [isArray |-> TRUE, val |-> <<>>]
        ELSE IF index.kind = "array" THEN [isArray |-> TRUE, val |-> index.keys]
        ELSE [isArray |-> FALSE, val |-> <<>>]

updateCacheIndex(c, s, keys) ==
    { [ls |-> IF w = "ok" THEN setItem(s, IndexKey(c), Arr(keys)) ELSE s,
       thrown |-> FALSE] : w \in SetItemResults(c) }

includes(seq, x) == \E i \in 1..Len(seq) : seq[i] = x

\* addToCacheIndex without the includes() test.
addToCacheIndex_NoCheck(c, s, key) ==
    LET index == getCacheIndex(c, s)
    IN  IF ~index.isArray THEN {[ls |-> s, thrown |-> TRUE]}
        ELSE updateCacheIndex(c, s, Append(index.val, key))

addToCacheIndex(c, s, key) ==
    LET index == getCacheIndex(c, s)
    IN  IF ~index.isArray THEN {[ls |-> s, thrown |-> TRUE]}
        ELSE IF ~includes(index.val, key)
        THEN updateCacheIndex(c, s, Append(index.val, key))
        ELSE {[ls |-> s, thrown |-> FALSE]}

\* removeFromCacheIndex as index.splice(index.indexOf(key), 1): with the key
\* not listed, indexOf is -1 and splice drops the last element.
removeFromCacheIndex_Splice(c, s, key) ==
    LET index == getCacheIndex(c, s)
    IN  IF ~index.isArray THEN {[ls |-> s, thrown |-> TRUE]}
        ELSE IF includes(index.val, key)
        THEN updateCacheIndex(c, s, SelectSeq(index.val, LAMBDA k : k # key))
        ELSE updateCacheIndex(c, s, SubSeq(index.val, 1, Len(index.val) - 1))

removeFromCacheIndex(c, s, key) ==
    LET index == getCacheIndex(c, s)
    IN  IF ~index.isArray THEN {[ls |-> s, thrown |-> TRUE]}
        ELSE updateCacheIndex(c, s, SelectSeq(index.val, LAMBDA k : k # key))

(***************************************************************************)
(* Size accounting (lines 122-147 and 1015-1038), in bytes.                *)
(***************************************************************************)
RECURSIVE SumSizes(_, _, _, _)
\* for (const key of index) { data = getItem(PREFIX + key); if (data) totalSize += size }
SumSizes(c, s, index, i) ==
    IF i > Len(index) THEN 0
    ELSE LET data == getItem(s, Prefix(c) \o index[i])
         IN  (IF data.kind # "null" THEN BlobSize(data) ELSE 0)
             + SumSizes(c, s, index, i + 1)

getCacheSize(c, s) ==
    LET index == getCacheIndex(c, s)
    IN  IF ~index.isArray THEN [thrown |-> TRUE, val |-> 0]
        ELSE [thrown |-> FALSE, val |-> SumSizes(c, s, index.val, 1)]

isCacheFull(c, s) ==
    LET size == getCacheSize(c, s)
    IN  [thrown |-> size.thrown, val |-> size.val >= Budget(c)]

(***************************************************************************)
(* deleteCachedDiagnosis / deleteCachedModel (lines 288-300, 1177-1187).   *)
(***************************************************************************)
deleteCached(c, s, cacheKey) ==
    LET removed == removeItem(s, Prefix(c) \o cacheKey)
    IN  { [ls |-> o.ls, ret |-> ~o.thrown, thrown |-> FALSE]
          : o \in removeFromCacheIndex(c, removed, cacheKey) }

(***************************************************************************)
(* evictOldestDiagnosis / evictOldestModel (lines 152-176, 1043-1067).     *)
(***************************************************************************)
RECURSIVE ScanOldest_Newest(_, _, _, _, _)
\* The scan of evictOldest with the comparison turned round.
ScanOldest_Newest(c, s, index, i, acc) ==
    IF i > Len(index) THEN acc
    ELSE LET data == getItem(s, Prefix(c) \o index[i])
             next ==
                IF data.kind = "null" \/ ParseThrows(data) THEN acc
                ELSE IF acc.inf \/ data.timestamp > acc.oldestTime
                THEN [oldestKey |-> index[i], oldestTime |-> data.timestamp,
                      inf |-> FALSE]
                ELSE acc
         IN  ScanOldest_Newest(c, s, index, i + 1, next)

RECURSIVE ScanOldest_FirstListed(_, _, _, _, _)
\* The scan keeping the first readable entry the index lists.
ScanOldest_FirstListed(c, s, index, i, acc) ==
    IF i > Len(index) THEN acc
    ELSE LET data == getItem(s, Prefix(c) \o index[i])
             next ==
                IF data.kind = "null" \/ ParseThrows(data) THEN acc
                ELSE IF acc.inf
                THEN [oldestKey |-> index[i], oldestTime |-> data.timestamp,
                      inf |-> FALSE]
                ELSE acc
         IN  ScanOldest_FirstListed(c, s, index, i + 1, next)

RECURSIVE ScanOldest(_, _, _, _, _)
\* acc is (oldestKey, oldestTime); oldestTime is Infinity while acc.inf.
ScanOldest(c, s, index, i, acc) ==
    IF i > Len(index) THEN acc
    ELSE LET data == getItem(s, Prefix(c) \o index[i])
             next ==
                IF data.kind = "null" \/ ParseThrows(data) THEN acc
                ELSE IF acc.inf \/ data.timestamp < acc.oldestTime
                THEN [oldestKey |-> index[i], oldestTime |-> data.timestamp,
                      inf |-> FALSE]
                ELSE acc
         IN  ScanOldest(c, s, index, i + 1, next)

OldestKey(c, s, index) ==
    ScanOldest(c, s, index, 1,
               [oldestKey |-> NoKey, oldestTime |-> 0, inf |-> TRUE]).oldestKey

evictOldest(c, s) ==
    LET index == getCacheIndex(c, s)
        oldestKey == OldestKey(c, s, index.val)
    IN  IF ~index.isArray THEN {[ls |-> s, key |-> NoKey, thrown |-> TRUE]}
        ELSE IF oldestKey # NoKey
        THEN { [ls |-> o.ls, key |-> oldestKey, thrown |-> FALSE]
               : o \in deleteCached(c, s, oldestKey) }
        ELSE {[ls |-> s, key |-> NoKey, thrown |-> FALSE]}

RECURSIVE EvictLoop(_, _, _)
\* while (isCacheFull()) { evictOldest(); }   ev lists the keys evicted so far.
\* A pass that evicts nothing while the cache stays full repeats forever (hang).
EvictLoop(c, s, ev) ==
    LET full == isCacheFull(c, s)
    IN  IF full.thrown
        THEN {[ls |-> s, ev |-> ev, hang |-> FALSE, thrown |-> TRUE]}
        ELSE IF ~full.val
        THEN {[ls |-> s, ev |-> ev, hang |-> FALSE, thrown |-> FALSE]}
        ELSE UNION { IF o.thrown
                     THEN {[ls |-> o.ls, ev |-> ev, hang |-> FALSE, thrown |-> TRUE]}
                     ELSE IF o.key = NoKey
                     THEN {[ls |-> o.ls, ev |-> ev, hang |-> TRUE, thrown |-> FALSE]}
                     ELSE EvictLoop(c, o.ls, Append(ev, o.key))
                     : o \in evictOldest(c, s) }

(***************************************************************************)
(* clearExpiredDiagnoses / clearExpiredModels (lines 337-361, 1222-1244).  *)
(* t is Date.now().  The loop runs over the index as read on entry.        *)
(***************************************************************************)
RECURSIVE SweepFrom_Boundary(_, _, _, _, _, _)
\* The sweep treating an entry as expired at the instant expiresAt itself.
SweepFrom_Boundary(c, s, index, i, t, clearedCount) ==
    IF i > Len(index)
    THEN {[ls |-> s, ret |-> clearedCount, thrown |-> FALSE]}
    ELSE LET data == getItem(s, Prefix(c) \o index[i])
         IN  IF data.kind = "null" \/ ParseThrows(data)
             THEN SweepFrom_Boundary(c, s, index, i + 1, t, clearedCount)
             ELSE IF t >= data.expiresAt
             THEN UNION { SweepFrom_Boundary(c, o.ls, index, i + 1, t,
                                             clearedCount + 1)
                          : o \in deleteCached(c, s, index[i]) }
             ELSE SweepFrom_Boundary(c, s, index, i + 1, t, clearedCount)

RECURSIVE SweepFrom(_, _, _, _, _, _)
SweepFrom(c, s, index, i, t, clearedCount) ==
    IF i > Len(index)
    THEN {[ls |-> s, ret |-> clearedCount, thrown |-> FALSE]}
    ELSE LET data == getItem(s, Prefix(c) \o index[i])
         IN  IF data.kind = "null" \/ ParseThrows(data)
             THEN SweepFrom(c, s, index, i + 1, t, clearedCount)
             ELSE IF t > data.expiresAt
             THEN UNION { SweepFrom(c, o.ls, index, i + 1, t, clearedCount + 1)
                          : o \in deleteCached(c, s, index[i]) }
             ELSE SweepFrom(c, s, index, i + 1, t, clearedCount)

clearExpired(c, s, t) ==
    LET index == getCacheIndex(c, s)
    IN  IF ~index.isArray THEN {[ls |-> s, ret |-> 0, thrown |-> TRUE]}
        ELSE SweepFrom(c, s, index.val, 1, t, 0)

(***************************************************************************)
(* getAllCachedDiagnoses / getAllCachedModels (lines 305-332, 1192-1217).  *)
(***************************************************************************)
\* { ...cached, cacheKey: key }
WithCacheKey(cached, key) ==
    [f \in DOMAIN cached \cup {"cacheKey"} |->
        IF f = "cacheKey" THEN key ELSE cached[f]]

RECURSIVE InsertNewestFirst(_, _, _)
\* One step of the stable sort by (a, b) => b.timestamp - a.timestamp.
InsertNewestFirst(sorted, x, i) ==
    IF i > Len(sorted) THEN Append(sorted, x)
    ELSE IF sorted[i].timestamp < x.timestamp
    THEN SubSeq(sorted, 1, i - 1) \o <<x>> \o SubSeq(sorted, i, Len(sorted))
    ELSE InsertNewestFirst(sorted, x, i + 1)

RECURSIVE SortNewestFirst(_, _, _)
SortNewestFirst(list, i, sorted) ==
    IF i > Len(list) THEN sorted
    ELSE SortNewestFirst(list, i + 1, InsertNewestFirst(sorted, list[i], 1))

RECURSIVE ListFrom(_, _, _, _, _, _)
ListFrom(c, s, index, i, t, list) ==
    IF i > Len(index)
    THEN {[ls |-> s, ret |-> SortNewestFirst(list, 1, <<>>), thrown |-> FALSE]}
    ELSE LET data == getItem(s, Prefix(c) \o index[i])
         IN  IF data.kind = "null" \/ ParseThrows(data)
             THEN ListFrom(c, s, index, i + 1, t, list)
             ELSE IF t <= data.expiresAt
             THEN ListFrom(c, s, index, i + 1, t,
                           Append(list, WithCacheKey(data, index[i])))
             ELSE UNION { ListFrom(c, o.ls, index, i + 1, t, list)
                          : o \in deleteCached(c, s, index[i]) }

getAllCached(c, s, t) ==
    LET index == getCacheIndex(c, s)
    IN  IF ~index.isArray THEN {[ls |-> s, ret |-> <<>>, thrown |-> TRUE]}
        ELSE ListFrom(c, s, index.val, 1, t, <<>>)

(***************************************************************************)
(* clearAllDiagnosisCache / clearAllCache (lines 366-383, 1249-1264).      *)
(***************************************************************************)
RECURSIVE RemoveAll(_, _, _, _)
RemoveAll(c, s, index, i) ==
    IF i > Len(index) THEN s
    ELSE RemoveAll(c, removeItem(s, Prefix(c) \o index[i]), index, i + 1)

clearAll(c, s) ==
    LET index == getCacheIndex(c, s)
    IN  IF ~index.isArray THEN [ls |-> s, ret |-> FALSE, thrown |-> FALSE]
        ELSE [ls |-> removeItem(RemoveAll(c, s, index.val, 1), IndexKey(c)),
              ret |-> TRUE, thrown |-> FALSE]

(***************************************************************************)
(* getDiagnosisCacheStats / getCacheStats (lines 398-423, 1282-1313).      *)
(* Sizes are reported in hundredths of a MB: Math.round(sizeMB * 100).     *)
(***************************************************************************)
\* Math.round(num / den) for num >= 0, den > 0.
MathRound(num, den) == (2 * num + den) \div (2 * den)

\* The statistics with the size measured before the listing has removed the
\* expired entries.
getCacheStats_SizeFirst(c, s, t) ==
    { LET size == getCacheSize(c, s)
          n == Len(a.ret)
      IN  [ls |-> a.ls,
           thrown |-> a.thrown \/ size.thrown,
           ret |-> [total |-> n,
                    totalSizeMB100 |-> MathRound(size.val * 100, BytesPerMB),
                    utilizationPercent |->
                        MathRound(size.val * 100, Budget(c)),
                    oldest |-> IF n > 0 THEN <<a.ret[n].timestamp>> ELSE <<>>,
                    newest |-> IF n > 0 THEN <<a.ret[1].timestamp>> ELSE <<>>]]
      : a \in getAllCached(c, s, t) }

getCacheStats(c, s, t) ==
    { LET size == getCacheSize(c, a.ls)
          n == Len(a.ret)
      IN  [ls |-> a.ls,
           thrown |-> a.thrown \/ size.thrown,
           ret |-> [total |-> n,
                    totalSizeMB100 |-> MathRound(size.val * 100, BytesPerMB),
                    utilizationPercent |->
                        MathRound(size.val * 100, Budget(c)),
                    oldest |-> IF n > 0 THEN <<a.ret[n].timestamp>> ELSE <<>>,
                    newest |-> IF n > 0 THEN <<a.ret[1].timestamp>> ELSE <<>>]]
      : a \in getAllCached(c, s, t) }

(***************************************************************************)
(* getCachedDiagnosis / getCachedModel (lines 253-283, 1144-1172).         *)
(* val is the record found (cached), or Null; note says which branch ran.  *)
(***************************************************************************)
\* The lookup handing back the expired record it is removing.
getCached_ReturnsRemoved(c, s, cacheKey, t) ==
    LET data == getItem(s, Prefix(c) \o cacheKey)
    IN  IF data.kind = "null"
        THEN {[ls |-> s, val |-> Null, note |-> "miss", thrown |-> FALSE]}
        ELSE IF ParseThrows(data)
        THEN {[ls |-> s, val |-> Null, note |-> "corrupt", thrown |-> FALSE]}
        ELSE IF t > data.expiresAt
        THEN { [ls |-> o.ls, val |-> data, note |-> "hit", thrown |-> FALSE]
               : o \in deleteCached(c, s, cacheKey) }
        ELSE {[ls |-> s, val |-> data, note |-> "hit", thrown |-> FALSE]}

\* The lookup refreshing the timestamp of the entry it hits (LRU by access).
getCached_Touch(c, s, cacheKey, t) ==
    LET data == getItem(s, Prefix(c) \o cacheKey)
    IN  IF data.kind = "null"
        THEN {[ls |-> s, val |-> Null, note |-> "miss", thrown |-> FALSE]}
        ELSE IF ParseThrows(data)
        THEN {[ls |-> s, val |-> Null, note |-> "corrupt", thrown |-> FALSE]}
        ELSE IF t > data.expiresAt
        THEN { [ls |-> o.ls, val |-> Null, note |-> "expired", thrown |-> FALSE]
               : o \in deleteCached(c, s, cacheKey) }
        ELSE {[ls |-> setItem(s, Prefix(c) \o cacheKey,
                             [data EXCEPT !.timestamp = t]),
               val |-> data, note |-> "hit", thrown |-> FALSE]}

\* The lookup with its expiry test one millisecond late.
getCached_Late(c, s, cacheKey, t) ==
    LET data == getItem(s, Prefix(c) \o cacheKey)
    IN  IF data.kind = "null"
        THEN {[ls |-> s, val |-> Null, note |-> "miss", thrown |-> FALSE]}
        ELSE IF ParseThrows(data)
        THEN {[ls |-> s, val |-> Null, note |-> "corrupt", thrown |-> FALSE]}
        ELSE IF t > data.expiresAt + 1
        THEN { [ls |-> o.ls, val |-> Null, note |-> "expired", thrown |-> FALSE]
               : o \in deleteCached(c, s, cacheKey) }
        ELSE {[ls |-> s, val |-> data, note |-> "hit", thrown |-> FALSE]}

getCached(c, s, cacheKey, t) ==
    LET data == getItem(s, Prefix(c) \o cacheKey)
    IN  IF data.kind = "null"
        THEN {[ls |-> s, val |-> Null, note |-> "miss", thrown |-> FALSE]}
        ELSE IF ParseThrows(data)
        THEN {[ls |-> s, val |-> Null, note |-> "corrupt", thrown |-> FALSE]}
        ELSE IF t > data.expiresAt
        THEN { [ls |-> o.ls, val |-> Null, note |-> "expired", thrown |-> FALSE]
               : o \in deleteCached(c, s, cacheKey) }
        ELSE {[ls |-> s, val |-> data, note |-> "hit", thrown |-> FALSE]}

\* return cached.diagnosis
getCachedDiagnosis(c, s, imageData, t) ==
    { [o EXCEPT !.val = IF o.note = "hit" THEN o.val.diagnosis ELSE Null]
      : o \in getCached(c, s, generateImageHash(imageData), t) }

\* return cachedModel
getCachedModel(c, s, organName, score, service, t) ==
    getCached(c, s, generateCacheKey(organName, score, service), t)

(***************************************************************************)
(* cacheDiagnosis / cacheModel (lines 182-247, 1072-1139).                 *)
(* first is the record of the first write and retry the record of the      *)
(* write after the sweep.  An outcome: ret (the boolean returned), hang    *)
(* (the eviction loop never ended), exc (an exception left the function),  *)
(* ev (keys evicted, in order), attempts (entry writes tried), sweeps      *)
(* (expiry sweeps run), err (what the first entry write threw), written    *)
(* (the record a successful write stored).                                 *)
(***************************************************************************)
StoreOutcome(s, ret, ev, attempts, sweeps, err, written) ==
    [ls |-> s, ret |-> ret, hang |-> FALSE, exc |-> FALSE, ev |-> ev,
     attempts |-> attempts, sweeps |-> sweeps, err |-> err, written |-> written]

\* try { setItem(PREFIX + cacheKey, record); addToCacheIndex(cacheKey); return true }
\* catch { return false }, for the write that did not throw.
WriteEntry(c, s, cacheKey, record, ev, attempts, sweeps, err) ==
    { StoreOutcome(a.ls, ~a.thrown, ev, attempts, sweeps, err, record)
      : a \in addToCacheIndex(c, setItem(s, Prefix(c) \o cacheKey, record), cacheKey) }

\* The catch block without the call of clearExpired.
RetryAfterSweep_NoSweep(c, s, cacheKey, retry, t, ev) ==
    UNION { IF w = "ok"
            THEN WriteEntry(c, s, cacheKey, retry, ev, 2, 0, "QuotaExceededError")
            ELSE {StoreOutcome(s, FALSE, ev, 2, 0, "QuotaExceededError", Null)}
            : w \in SetItemResults(c) }

\* The catch block of the first write, entered with a QuotaExceededError.
RetryAfterSweep(c, s, cacheKey, retry, t, ev) ==
    UNION { IF sw.thrown
            THEN {[StoreOutcome(sw.ls, FALSE, ev, 1, 1, "QuotaExceededError", Null)
                   EXCEPT !.exc = TRUE]}
            ELSE UNION { IF w = "ok"
                         THEN WriteEntry(c, sw.ls, cacheKey, retry, ev, 2, 1,
                                         "QuotaExceededError")
                         ELSE {StoreOutcome(sw.ls, FALSE, ev, 2, 1,
                                            "QuotaExceededError", Null)}
                         : w \in SetItemResults(c) }
            : sw \in clearExpired(c, s, t) }

cacheEntry(c, s, cacheKey, first, retry, t) ==
    UNION { IF o.hang
            THEN {[StoreOutcome(o.ls, FALSE, o.ev, 0, 0, "none", Null)
                   EXCEPT !.hang = TRUE]}
            ELSE IF o.thrown
            THEN {StoreOutcome(o.ls, FALSE, o.ev, 0, 0, "none", Null)}
            ELSE UNION { CASE w = "ok" ->
                                WriteEntry(c, o.ls, cacheKey, first, o.ev, 1, 0, "none")
                           [] w = "QuotaExceededError" ->
                                RetryAfterSweep(c, o.ls, cacheKey, retry, t, o.ev)
                           [] OTHER ->
                                {StoreOutcome(o.ls, FALSE, o.ev, 1, 0, w, Null)}
                         : w \in SetItemResults(c) }
            : o \in EvictLoop(c, s, <<>>) }

\* cacheDiagnosis whose retry writes expiresAt: now.
cacheDiagnosis_RetryNoTTL(c, s, organName, imageData, diagnosis, t) ==
    LET imageHash == generateImageHash(imageData)
        cachedDiagnosis ==
            [kind |-> "object", organName |-> organName, imageHash |-> imageHash,
             diagnosis |-> diagnosis, timestamp |-> t,
             expiresAt |-> t + TTL(c)]
    IN  cacheEntry(c, s, imageHash, cachedDiagnosis,
                   [cachedDiagnosis EXCEPT !.expiresAt = t], t)

cacheDiagnosis(c, s, organName, imageData, diagnosis, t) ==
    LET imageHash == generateImageHash(imageData)
        cachedDiagnosis ==
            [kind |-> "object", organName |-> organName, imageHash |-> imageHash,
             diagnosis |-> diagnosis, timestamp |-> t,
             expiresAt |-> t + TTL(c)]
    IN  cacheEntry(c, s, imageHash, cachedDiagnosis, cachedDiagnosis, t)

\* JSON.stringify leaves out the properties whose value is undefined
\* (modelData and fileSize when no modelData is passed).
cacheModel(c, s, organName, score, service, modelUrl, modelData, t) ==
    LET cacheKey == generateCacheKey(organName, score, service)
        urlOnly ==
            [kind |-> "object", organName |-> organName, score |-> score,
             service |-> service, modelUrl |-> modelUrl, timestamp |-> t,
             expiresAt |-> t + TTL(c)]
        cachedModel ==
            IF modelData = Undefined THEN urlOnly
            ELSE [f \in DOMAIN urlOnly \cup {"modelData", "fileSize"} |->
                    CASE f = "modelData" -> modelData
                      [] f = "fileSize" -> ModelDataBytes
                      [] OTHER -> urlOnly[f]]
    IN  cacheEntry(c, s, cacheKey, cachedModel, urlOnly, t)

(***************************************************************************)
(* Inputs.                                                                 *)
(***************************************************************************)
\* imageData: "a", "b", "ab"
Images(c) ==
    IF c.writes = Reliable THEN {<<97>>, <<98>>, <<97, 98>>} ELSE {<<97>>, <<98>>}

Diagnoses ==
    { [organ |-> "lung", healthStatus |-> "Healthy"],
      [organ |-> "lung", healthStatus |-> "Diseased"] }

\* (organName, score, service)
ModelRequests(c) ==
    { <<"Heart", 80, "meshy">>, <<"heart", 80, "meshy">>,
      <<"Heart", 80, "huggingface">> }
    \cup (IF c.writes = Reliable THEN {<<"Lung", 50, "meshy">>} ELSE {})

\* (modelUrl, modelData)
ModelPayloads ==
    { [modelUrl |-> "u1", modelData |-> Undefined],
      [modelUrl |-> "u1", modelData |-> "glb"] }

CacheKeys(c) ==
    IF c.inst = "diagnosis" THEN {generateImageHash(img) : img \in Images(c)}
    ELSE {generateCacheKey(r[1], r[2], r[3]) : r \in ModelRequests(c)}

\* The instants at which Date.now() is read.
Instants(c) == {0, TTL(c), TTL(c) + 1}

(***************************************************************************)
(* State.  last describes the latest call of a public function: its        *)
(* arguments (op, key, arg) and what it returned; the call read the clock  *)
(* at now.  note is, for a store or a delete, whether the key was there    *)
(* before; for a lookup, what the lookup found; for stats, "expired" when  *)
(* the call found an indexed entry past its expiresAt; for generate,       *)
(* "unavailable" when no service could be used.  n is, for a store, how    *)
(* many of the entries it evicted were past their expiresAt.  For generate,*)
(* ev lists the services a request went to.                                *)
(***************************************************************************)
NoCall ==
    [op |-> "none", key |-> NoKey, arg |-> Null, ret |-> FALSE,
     val |-> Null, n |-> 0, note |-> "", ev |-> <<>>, attempts |-> 0,
     sweeps |-> 0, err |-> "none", exc |-> FALSE, hang |-> FALSE]

Call(op, key) == [NoCall EXCEPT !.op = op, !.key = key]

\* The context of every call of this behaviour.
Ctx == [inst |-> inst, writes |-> writes]

\* The keys the index lists, and the keys that have an entry record.
IndexedKeys(c, s) ==
    LET index == getCacheIndex(c, s).val IN {index[i] : i \in 1..Len(index)}

StoredKeys(c, s) ==
    {k \in CacheKeys(c) : getItem(s, Prefix(c) \o k).kind # "null"}

\* Whether the key has a record and is indexed, neither, or one of the two.
Presence(c, s, key) ==
    IF key \in StoredKeys(c, s) \cap IndexedKeys(c, s) THEN "present"
    ELSE IF key \in StoredKeys(c, s) \cup IndexedKeys(c, s) THEN "partial"
    ELSE "absent"

Init ==
    /\ inst \in Instances
    /\ writes \in {Reliable, Failing}
    /\ ls = << >>
    /\ now = 0
    /\ last = NoCall

\* No call is in progress and the result of the latest one has been taken.
Idle == last.op \in {"none", "tick"}

Stored(o, key, arg) ==
    /\ ls' = o.ls
    /\ last' = [Call("store", key) EXCEPT
                    !.arg = arg, !.ret = o.ret, !.val = o.written, !.ev = o.ev,
                    !.note = Presence(Ctx, ls, key),
                    !.attempts = o.attempts, !.sweeps = o.sweeps,
                    !.err = o.err, !.exc = o.exc, !.hang = o.hang,
                    !.n = Cardinality(
                            {i \in 1..Len(o.ev) :
                               now > getItem(ls, Prefix(Ctx) \o o.ev[i]).expiresAt})]

Store ==
    /\ Idle
    /\ IF inst = "diagnosis"
       THEN \E img \in Images(Ctx), d \in Diagnoses :
              \E o \in cacheDiagnosis(Ctx, ls, d.organ, img, d, now) :
                 Stored(o, generateImageHash(img), d)
       ELSE \E r \in ModelRequests(Ctx), p \in ModelPayloads :
              \E o \in cacheModel(Ctx, ls, r[1], r[2], r[3], p.modelUrl,
                                  p.modelData, now) :
                 Stored(o, generateCacheKey(r[1], r[2], r[3]), p)
    /\ UNCHANGED <<inst, writes, now>>

Looked(o, key) ==
    /\ ls' = o.ls
    /\ last' = [Call("lookup", key) EXCEPT
                    !.val = o.val, !.note = o.note, !.exc = o.thrown]

Lookup ==
    /\ Idle
    /\ IF inst = "diagnosis"
       THEN \E img \in Images(Ctx) :
              \E o \in getCachedDiagnosis(Ctx, ls, img, now) :
                 Looked(o, generateImageHash(img))
       ELSE \E r \in ModelRequests(Ctx) :
              \E o \in getCachedModel(Ctx, ls, r[1], r[2], r[3], now) :
                 Looked(o, generateCacheKey(r[1], r[2], r[3]))
    /\ UNCHANGED <<inst, writes, now>>

Delete ==
    /\ Idle
    /\ \E key \in CacheKeys(Ctx) :
         \E o \in deleteCached(Ctx, ls, key) :
            /\ ls' = o.ls
            /\ last' = [Call("delete", key) EXCEPT
                          !.ret = o.ret, !.exc = o.thrown,
                          !.note = Presence(Ctx, ls, key)]
    /\ UNCHANGED <<inst, writes, now>>

ClearExpired ==
    /\ Idle
    /\ \E o \in clearExpired(Ctx, ls, now) :
         /\ ls' = o.ls
         /\ last' = [Call("clearExpired", NoKey) EXCEPT
                        !.n = o.ret, !.exc = o.thrown]
    /\ UNCHANGED <<inst, writes, now>>

ClearAll ==
    /\ Idle
    /\ LET o == clearAll(Ctx, ls)
       IN  /\ ls' = o.ls
           /\ last' = [Call("clearAll", NoKey) EXCEPT !.ret = o.ret, !.exc = o.thrown]
    /\ UNCHANGED <<inst, writes, now>>

GetAll ==
    /\ Idle
    /\ \E o \in getAllCached(Ctx, ls, now) :
         /\ ls' = o.ls
         /\ last' = [Call("getAll", NoKey) EXCEPT
                        !.val = [kind |-> "list", list |-> o.ret],
                        !.n = Len(o.ret), !.exc = o.thrown]
    /\ UNCHANGED <<inst, writes, now>>

Stats ==
    /\ Idle
    /\ \E o \in getCacheStats(Ctx, ls, now) :
         /\ ls' = o.ls
         /\ last' = [Call("stats", NoKey) EXCEPT
                        !.val = [kind |-> "stats", stats |-> o.ret],
                        !.n = o.ret.total, !.exc = o.thrown,
                        !.note = IF \E k \in IndexedKeys(Ctx, ls) :
                                      LET rec == getItem(ls, Prefix(Ctx) \o k)
                                      IN  rec.kind = "object" /\ now > rec.expiresAt
                                 THEN "expired" ELSE ""]
    /\ UNCHANGED <<inst, writes, now>>

Size ==
    /\ Idle
    /\ LET o == getCacheSize(Ctx, ls)
       IN  last' = [Call("size", NoKey) EXCEPT !.n = o.val, !.exc = o.thrown]
    /\ UNCHANGED <<inst, writes, ls, now>>

\* The caller takes the result of the call; the clock has moved on, or has not.
\* A call whose eviction loop never ends returns nothing to take.
Tick ==
    /\ ~last.hang
    /\ \E t \in Instants(Ctx) : t >= now /\ now' = t
    /\ last' = Call("tick", NoKey)
    /\ UNCHANGED <<inst, writes, ls>>

(***************************************************************************)
(* generateAIModel (lines 767-847).  apiKeys is the set of services that   *)
(* have a key.  An outcome: ret (the object returned, Null when the        *)
(* function threw), requests (the services a request was sent to, in       *)
(* order), thrown (no service was available).                              *)
(***************************************************************************)
Services == <<"meshy", "huggingface">>

\* generateWithMeshy: the request is answered with a task, or fails.
MeshyResults == {"ok", "failed"}

\* service.time
EstimatedTime(service) == IF service = "meshy" THEN 180 ELSE 240

RECURSIVE TryServices(_, _, _, _, _)
\* for (const service of services) { if (!service.key) continue; ... }
TryServices(s, services, i, apiKeys, requests) ==
    IF i > Len(services)
    THEN {[ls |-> s, ret |-> Null, requests |-> requests, thrown |-> TRUE]}
    ELSE IF services[i] \notin apiKeys
    THEN TryServices(s, services, i + 1, apiKeys, requests)
    ELSE IF services[i] = "meshy"
    THEN UNION {
           IF res = "ok"
           THEN {[ls |-> s,
                  ret |-> [taskId |-> "meshy-task", service |-> "meshy",
                           estimatedTime |-> EstimatedTime("meshy"),
                           cached |-> FALSE, modelUrl |-> Undefined],
                  requests |-> Append(requests, "meshy"),
                  thrown |-> FALSE]}
           ELSE TryServices(s, services, i + 1, apiKeys,
                            Append(requests, "meshy"))
           : res \in MeshyResults }
    ELSE {[ls |-> s,
           ret |-> [taskId |-> "hf-task", service |-> services[i],
                    estimatedTime |-> EstimatedTime(services[i]),
                    cached |-> FALSE, modelUrl |-> Undefined],
           requests |-> requests, thrown |-> FALSE]}

generateAIModel(c, s, organName, healthScore, apiKeys, preferredService, t) ==
    IF preferredService # Undefined
    THEN UNION {
           IF o.val # Null
           THEN {[ls |-> o.ls,
                  ret |-> [taskId |-> "cached_" \o ToString(o.val.timestamp),
                           service |-> preferredService,
                           estimatedTime |-> 0, cached |-> TRUE,
                           modelUrl |-> o.val.modelUrl],
                  requests |-> <<>>, thrown |-> FALSE]}
           ELSE TryServices(o.ls, <<preferredService>>, 1, apiKeys, <<>>)
           : o \in getCachedModel(c, s, organName, healthScore,
                                  preferredService, t) }
    ELSE TryServices(s, Services, 1, apiKeys, <<>>)

\* What the callers of generateAIModel pass.
Organs(c) == {<<r[1], r[2]>> : r \in ModelRequests(c)}

PreferredServices == {Undefined, "meshy", "huggingface"}

ApiKeys == SUBSET {"meshy", "huggingface"}

Generate ==
    /\ Idle
    /\ inst = "model"
    /\ \E r \in Organs(Ctx), pref \in PreferredServices, keys \in ApiKeys :
         \E o \in generateAIModel(Ctx, ls, r[1], r[2], keys, pref, now) :
            /\ ls' = o.ls
            /\ last' = [Call("generate", NoKey) EXCEPT
                           !.arg = [organName |-> r[1], healthScore |-> r[2],
                                    preferredService |-> pref],
                           !.val = o.ret, !.ev = o.requests,
                           !.note = IF o.thrown THEN "unavailable" ELSE ""]
    /\ UNCHANGED <<inst, writes, now>>

Next ==
    \/ Store
    \/ Lookup
    \/ Delete
    \/ ClearExpired
    \/ ClearAll
    \/ GetAll
    \/ Stats
    \/ Size
    \/ Generate
    \/ Tick

Spec == Init /\ [][Next]_vars

(***************************************************************************)
(* localStorage outlives the page and is writable from outside it (the     *)
(* browser's storage inspector, another script of the origin, a truncated  *)
(* write): an item can come to hold a string that JSON.parse rejects.      *)
(* SpecCorrupt adds these steps of the environment: up to MaxDamaged entry  *)
(* records damaged, or the index.                                          *)
(***************************************************************************)
MaxDamaged == 2

Corrupt(item) == [kind |-> "corrupt", bytes |-> BlobSize(item)]

\* An item that parses, to a JSON value that is not an array (an object).
NotArray(item) == [kind |-> "value", bytes |-> BlobSize(item)]

NoneCorrupt(s) == \A k \in DOMAIN s : s[k].kind \notin {"corrupt", "value"}

\* The entry records that JSON.parse rejects.
DamagedKeys(c, s) ==
    {key \in StoredKeys(c, s) : ParseThrows(getItem(s, Prefix(c) \o key))}

CorruptEntry ==
    /\ Idle
    /\ getItem(ls, IndexKey(Ctx)).kind \notin {"corrupt", "value"}
    /\ Cardinality(DamagedKeys(Ctx, ls)) < MaxDamaged
    /\ \E key \in StoredKeys(Ctx, ls) :
         /\ getItem(ls, Prefix(Ctx) \o key).kind = "object"
         /\ ls' = setItem(ls, Prefix(Ctx) \o key,
                          Corrupt(getItem(ls, Prefix(Ctx) \o key)))
    /\ UNCHANGED <<inst, writes, now, last>>

CorruptIndex ==
    /\ Idle
    /\ NoneCorrupt(ls)
    /\ getItem(ls, IndexKey(Ctx)).kind = "array"
    /\ \E item \in {Corrupt(getItem(ls, IndexKey(Ctx))),
                     NotArray(getItem(ls, IndexKey(Ctx)))} :
          ls' = setItem(ls, IndexKey(Ctx), item)
    /\ UNCHANGED <<inst, writes, now, last>>

NextCorrupt ==
    \/ Next
    \/ CorruptEntry
    \/ CorruptIndex

SpecCorrupt == Init /\ [][NextCorrupt]_vars

(***************************************************************************)
(* Properties of the two caches.                                           *)
(***************************************************************************)
Entry(key) == getItem(ls, Prefix(Ctx) \o key)

RECURSIVE BytesOf(_, _, _)
\* The bytes of the records stored under a set of cache keys.
BytesOf(c, s, keys) ==
    IF keys = {} THEN 0
    ELSE LET k == CHOOSE x \in keys : TRUE
         IN  BlobSize(getItem(s, Prefix(c) \o k)) + BytesOf(c, s, keys \ {k})

\* The indexed keys whose record has not expired at t.
LiveKeys(c, s, t) ==
    {k \in IndexedKeys(c, s) :
        LET rec == getItem(s, Prefix(c) \o k)
        IN  rec.kind = "object" /\ t <= rec.expiresAt}

\* The payload a caller passed to store, as a record of the cache holds it.
StoredPayload(c, rec) ==
    IF c.inst = "diagnosis" THEN rec.diagnosis
    ELSE [modelUrl |-> rec.modelUrl,
          modelData |-> IF "modelData" \in DOMAIN rec THEN rec.modelData
                        ELSE Undefined]

\* The payload in what a lookup returned (the diagnosis, or the model record).
ReturnedPayload(c, val) ==
    IF val = Null THEN Null
    ELSE IF c.inst = "diagnosis" THEN val
    ELSE StoredPayload(c, val)

\* The outcomes of the public lookup under a cache key at t.
LookupOutcomes(c, s, key, t) ==
    IF c.inst = "diagnosis"
    THEN UNION { getCachedDiagnosis(c, s, img, t)
                 : img \in {i \in Images(c) : generateImageHash(i) = key} }
    ELSE UNION { getCachedModel(c, s, r[1], r[2], r[3], t)
                 : r \in {q \in ModelRequests(c) :
                             generateCacheKey(q[1], q[2], q[3]) = key} }

\* What the cache holds: the entry records, and the order in which the
\* index lists the keys that have one.
Logical(c, s) ==
    [index |-> SelectSeq(getCacheIndex(c, s).val,
                         LAMBDA k : getItem(s, Prefix(c) \o k).kind # "null"),
     entries |-> [k \in CacheKeys(c) |-> getItem(s, Prefix(c) \o k)]]

\* C1: after every store has returned, the bytes of the live indexed entries
\* are at most the budget of the cache.
C1_BudgetAfterStore ==
    (last.op = "store" /\ ~last.hang /\ ~last.exc)
        => BytesOf(Ctx, ls, LiveKeys(Ctx, ls, now)) <= Budget(Ctx)

\* C2: after a store under key K with payload P has returned true, a lookup
\* of K made at once returns exactly P, in both caches and also when the
\* store succeeded on its retry.
C2_RoundTrip ==
    (last.op = "store" /\ last.ret)
        => \A o \in LookupOutcomes(Ctx, ls, last.key, now) :
              ReturnedPayload(Ctx, o.val) = last.arg

\* C3: a store at time T writes an entry created at T that expires at T + t;
\* a lookup later than T + t does not return the entry, and a lookup at or
\* before T + t returns the payload of the entry that is there.
C3_Expiry ==
    [][ /\ (last'.op = "store" /\ last'.ret)
            => LET rec == getItem(ls', Prefix(Ctx) \o last'.key)
               IN  rec.timestamp = now /\ rec.expiresAt = now + TTL(Ctx)
        /\ last'.op = "lookup"
            => LET rec == getItem(ls, Prefix(Ctx) \o last'.key)
               IN  rec.kind = "object"
                    => IF now > rec.timestamp + TTL(Ctx)
                       THEN last'.val = Null
                       ELSE ReturnedPayload(Ctx, last'.val) = StoredPayload(Ctx, rec)
      ]_vars

C3_Witness ==
    last.op = "lookup" /\ last.note = "expired" /\ last.val = Null

\* The i-th eviction of ev removes, from the indexed entries left by the
\* evictions before it, one of smallest timestamp, and the total was still
\* at the budget or over it.
EvictedInOrder(c, s, ev) ==
    \A i \in 1..Len(ev) :
        LET left == {k \in IndexedKeys(c, s) \ {ev[j] : j \in 1..(i - 1)} :
                        getItem(s, Prefix(c) \o k).kind = "object"}
        IN  /\ ev[i] \in left
            /\ \A k \in left : getItem(s, Prefix(c) \o ev[i]).timestamp
                                  <= getItem(s, Prefix(c) \o k).timestamp
            /\ BytesOf(c, s, left) >= Budget(c)

\* C4: eviction removes entries in ascending creation time, one per step,
\* and stops as soon as the total is under the budget.
C4_EvictionOrder ==
    [][ (last'.op = "store" /\ ~last'.hang)
            => /\ EvictedInOrder(Ctx, ls, last'.ev)
               /\ BytesOf(Ctx, ls, IndexedKeys(Ctx, ls)
                                      \ {last'.ev[j] : j \in 1..Len(last'.ev)})
                     < Budget(Ctx)
      ]_vars

C4_Witness == last.op = "store" /\ Len(last.ev) >= 2 /\ last.ret

\* C5: in every reachable state the keys the index lists are exactly the
\* keys that have an entry record.
C5_IndexMatchesRecords == IndexedKeys(Ctx, ls) = StoredKeys(Ctx, ls)

\* C6: a store whose entry write throws QuotaExceededError runs the expiry
\* sweep once and writes once more; no store writes more than twice; a store
\* returns true exactly when one of its writes went through.
C6_SweepAndRetryOnce ==
    last.op = "store"
        => /\ last.attempts <= 2
           /\ ~last.exc
           /\ last.err = "QuotaExceededError"
                => /\ last.sweeps = 1
                   /\ last.attempts = 2
                   /\ LiveKeys(Ctx, ls, now)
                         = {k \in IndexedKeys(Ctx, ls) : Entry(k).kind = "object"}
           /\ last.err # "QuotaExceededError"
                => last.sweeps = 0 /\ last.attempts <= 1
           /\ last.ret <=> last.val # Null
           /\ last.ret => Entry(last.key) = last.val

C6_Witness ==
    last.op = "store" /\ last.err = "QuotaExceededError" /\ last.ret

\* C7: no public function ends with an exception, whatever the storage
\* holds and whichever write fails or item does not parse.
C7_NoException == ~last.exc

\* C8: delete returns true for a key that has no entry and leaves what the
\* cache holds as it was; a second delete of a key returns true like the
\* first and leaves what the cache holds as the first delete left it.
C8_IdempotentDelete ==
    \A key \in CacheKeys(Ctx) :
        \A once \in deleteCached(Ctx, ls, key) :
            /\ once.ret
            /\ key \notin StoredKeys(Ctx, ls)
                 => Logical(Ctx, once.ls) = Logical(Ctx, ls)
            /\ \A twice \in deleteCached(Ctx, once.ls, key) :
                 /\ twice.ret
                 /\ Logical(Ctx, twice.ls) = Logical(Ctx, once.ls)

C8_Witness ==
    /\ last.op = "delete"
    /\ last.note = "absent"
    /\ last.ret
    /\ StoredKeys(Ctx, ls) # {}

C10_UnreadableRemoved ==
    [][ \A k \in CacheKeys(Ctx) :
           ( /\ getItem(ls, Prefix(Ctx) \o k).kind = "corrupt"
             /\ \/ last'.op = "lookup" /\ last'.key = k
                \/ last'.op = "clearExpired" )
             => /\ last'.op = "lookup" => last'.val = Null
                /\ getItem(ls', Prefix(Ctx) \o k).kind = "null"
                /\ k \notin IndexedKeys(Ctx, ls')
      ]_vars

\* The keys the index lists that have no entry record.
DanglingKeys(c, s) == IndexedKeys(c, s) \ StoredKeys(c, s)

\* C11: a lookup of a key that is in the index without a record, or has a
\* record without being in the index, reports the key absent; and a store
\* that returns true leaves no index key without a record that was already
\* without one before the call.
C11_DivergenceHeals ==
    [][ /\ (last'.op = "lookup" /\ Presence(Ctx, ls, last'.key) = "partial")
            => last'.val = Null
        /\ (last'.op = "store" /\ last'.ret)
            => DanglingKeys(Ctx, ls) \cap DanglingKeys(Ctx, ls') = {}
      ]_vars

\* The records a store call made no later than t can have written under a
\* cache key, by its first write or by its retry.
WritableRecords(c, key, t) ==
    LET any == [inst |-> c.inst, writes |-> Failing]
        outcomes(t0) ==
            IF c.inst = "diagnosis"
            THEN UNION { cacheDiagnosis(any, << >>, d.organ, img, d, t0)
                         : img \in {i \in Images(c) : generateImageHash(i) = key},
                           d \in Diagnoses }
            ELSE UNION { cacheModel(any, << >>, r[1], r[2], r[3],
                                    p.modelUrl, p.modelData, t0)
                         : r \in {q \in ModelRequests(c) :
                                     generateCacheKey(q[1], q[2], q[3]) = key},
                           p \in ModelPayloads }
    IN  UNION { {o.written : o \in {x \in outcomes(t0) : x.ret}}
                : t0 \in {i \in Instants(c) : i <= t} }

\* C12: with whole cache operations interleaved in any order, a lookup
\* reports the key absent or returns the content of a record that an earlier
\* store wrote under that key, and that record is whole in storage before
\* and after the lookup (no removal of it has begun).
C12_NoPartialVisibility ==
    [][ last'.op = "lookup"
          => \/ last'.val = Null
             \/ \E rec \in WritableRecords(Ctx, last'.key, now) :
                   /\ last'.val = IF inst = "diagnosis" THEN rec.diagnosis ELSE rec
                   /\ getItem(ls, Prefix(Ctx) \o last'.key) = rec
                   /\ getItem(ls', Prefix(Ctx) \o last'.key) = rec
      ]_vars

C12_Witness ==
    /\ last.op = "lookup"
    /\ last.note = "hit"
    /\ last.val # Null
    /\ DanglingKeys(Ctx, ls) # {}

\* The indexed keys whose record has expired at t.
ExpiredKeys(c, s, t) ==
    {k \in IndexedKeys(c, s) :
        LET rec == getItem(s, Prefix(c) \o k)
        IN  rec.kind = "object" /\ t > rec.expiresAt}

\* C13: the expiry sweep removes the record of every indexed entry whose
\* expiresAt has passed, leaves every other record as it was, and returns
\* the number of entries it removed; where every write is accepted it takes
\* exactly the removed keys off the index.
C13_SweepExact ==
    [][ last'.op = "clearExpired"
          => LET expired == ExpiredKeys(Ctx, ls, now)
             IN  /\ \A k \in CacheKeys(Ctx) :
                       getItem(ls', Prefix(Ctx) \o k)
                          = IF k \in expired THEN Null
                            ELSE getItem(ls, Prefix(Ctx) \o k)
                 /\ last'.n = Cardinality(expired)
                 /\ writes = Reliable
                      => getCacheIndex(Ctx, ls').val
                            = SelectSeq(getCacheIndex(Ctx, ls).val,
                                        LAMBDA k : k \notin expired)
      ]_vars

C13_Witness ==
    /\ last.op = "clearExpired"
    /\ last.n >= 1
    /\ StoredKeys(Ctx, ls) # {}

\* C14: generateImageHash(B) is the same string in every store state and at
\* every time ("a", "b" and "ab" hash to 1s00g, 1snrj and nk28k0 wherever
\* they are hashed), and the key of every diagnosis store and lookup is the
\* hash of its image.
C14_HashDependsOnInputOnly ==
    /\ generateImageHash(<<97>>) = "1s00g"
    /\ generateImageHash(<<98>>) = "1snrj"
    /\ generateImageHash(<<97, 98>>) = "nk28k0"
    /\ (inst = "diagnosis" /\ last.op \in {"store", "lookup"})
          => last.key \in {"1s00g", "1snrj", "nk28k0"}

C14_Witness ==
    /\ inst = "diagnosis"
    /\ now > 0
    /\ last.op = "lookup"
    /\ last.note = "hit"
    /\ last.key = generateImageHash(<<97>>)
    /\ Entry(last.key).timestamp = 0

\* C15: a lookup that hits a live entry leaves every storage item as it was:
\* no record, timestamp, expiresAt or index position changes.
C15_LookupHitChangesNothing ==
    [][ (last'.op = "lookup" /\ last'.note = "hit") => ls' = ls ]_vars

C15_Witness ==
    /\ last.op = "lookup"
    /\ last.note = "hit"
    /\ now > Entry(last.key).timestamp
    /\ Cardinality(StoredKeys(Ctx, ls) \cap IndexedKeys(Ctx, ls)) >= 2

(***************************************************************************)
(* The page can go away (tab closed, navigation, process killed) between   *)
(* two storage calls of a function; localStorage keeps what was written up *)
(* to then.  SpecCrash adds the stops between the two writes of the        *)
(* mutating functions.                                                     *)
(***************************************************************************)
\* cacheDiagnosis / cacheModel up to the setItem of the record (line 210),
\* before addToDiagnosisCacheIndex (line 211).
cacheEntryBeforeIndex(c, s, cacheKey, first) ==
    { setItem(o.ls, Prefix(c) \o cacheKey, first)
      : o \in {x \in EvictLoop(c, s, <<>>) : ~x.hang /\ ~x.thrown} }

\* deleteCachedDiagnosis up to removeItem (line 292), before
\* removeFromDiagnosisCacheIndex (line 293).
deleteCachedBeforeIndex(c, s, cacheKey) == removeItem(s, Prefix(c) \o cacheKey)

\* clearAllDiagnosisCache up to the removal of the first n records
\* (lines 372-374), before removeItem of the index (line 376).
clearAllBeforeIndex(c, s, n) ==
    RemoveAll(c, s, SubSeq(getCacheIndex(c, s).val, 1, n), 1)

StoppedIn(op, key) == [Call("crash", key) EXCEPT !.note = op]

CrashInStore ==
    /\ Idle
    /\ IF inst = "diagnosis"
       THEN \E img \in Images(Ctx), d \in Diagnoses :
              \E o \in cacheDiagnosis(Ctx, << >>, d.organ, img, d, now) :
                 /\ o.ret /\ o.attempts = 1
                 /\ ls' \in cacheEntryBeforeIndex(Ctx, ls, generateImageHash(img),
                                                  o.written)
                 /\ last' = StoppedIn("store", generateImageHash(img))
       ELSE \E r \in ModelRequests(Ctx), p \in ModelPayloads :
              \E o \in cacheModel(Ctx, << >>, r[1], r[2], r[3], p.modelUrl,
                                  p.modelData, now) :
                 /\ o.ret /\ o.attempts = 1
                 /\ ls' \in cacheEntryBeforeIndex(
                               Ctx, ls, generateCacheKey(r[1], r[2], r[3]),
                               o.written)
                 /\ last' = StoppedIn("store", generateCacheKey(r[1], r[2], r[3]))
    /\ UNCHANGED <<inst, writes, now>>

CrashInDelete ==
    /\ Idle
    /\ \E key \in StoredKeys(Ctx, ls) :
         /\ ls' = deleteCachedBeforeIndex(Ctx, ls, key)
         /\ last' = StoppedIn("delete", key)
    /\ UNCHANGED <<inst, writes, now>>

CrashInClearAll ==
    /\ Idle
    /\ getCacheIndex(Ctx, ls).isArray
    /\ \E n \in 1..Len(getCacheIndex(Ctx, ls).val) :
         /\ ls' = clearAllBeforeIndex(Ctx, ls, n)
         /\ last' = StoppedIn("clearAll", NoKey)
    /\ UNCHANGED <<inst, writes, now>>

NextCrash ==
    \/ Next
    \/ CrashInStore
    \/ CrashInDelete
    \/ CrashInClearAll

SpecCrash == Init /\ [][NextCrash]_vars

\* C16: when a mutating function stops between its two storage writes, with
\* every write so far accepted, the keys of the persisted index are exactly
\* the keys that have a persisted record.
C16_CrashConsistent ==
    (last.op = "crash" /\ writes = Reliable)
        => IndexedKeys(Ctx, ls) = StoredKeys(Ctx, ls)

\* C17: the statistics count the indexed entries that have not expired and
\* no others, in the entry count and in the size (hundredths of a MB), also
\* when no lookup or sweep has touched the expired entries before.
C17_StatsSkipExpired ==
    [][ last'.op = "stats"
          => LET live == LiveKeys(Ctx, ls, now)
             IN  /\ last'.val.stats.total = Cardinality(live)
                 /\ last'.val.stats.totalSizeMB100
                       = MathRound(BytesOf(Ctx, ls, live) * 100, BytesPerMB)
      ]_vars

C17_Witness ==
    /\ last.op = "stats"
    /\ last.note = "expired"
    /\ last.n >= 1

\* expiresAt is later than timestamp by the fixed lifetime of the cache:
\* 30 days for a diagnosis, 7 days for a model.
FixedLifetime(rec) ==
    /\ rec.expiresAt > rec.timestamp
    /\ rec.expiresAt - rec.timestamp
          = (IF inst = "diagnosis" THEN 30 ELSE 7) * MsPerDay

\* C18: every entry record in storage, and the record every successful store
\* has just written by its first write or by its retry, has expiresAt later
\* than timestamp by exactly the fixed lifetime of its cache.
C18_FixedTTL ==
    /\ \A k \in CacheKeys(Ctx) :
          Entry(k).kind = "object" => FixedLifetime(Entry(k))
    /\ (last.op = "store" /\ last.ret)
          => /\ FixedLifetime(last.val)
             /\ last.val.timestamp = now
             /\ Entry(last.key) = last.val

C18_Witness ==
    /\ last.op = "store"
    /\ last.ret
    /\ last.attempts = 2
    /\ now > 0
    /\ Entry(last.key).expiresAt = now + TTL(Ctx)

(***************************************************************************)
(* generateAIModel and the cache.                                          *)
(***************************************************************************)
\* The services generateAIModel would try for this call.
Candidates(arg) ==
    IF arg.preferredService = Undefined
    THEN {Services[i] : i \in 1..Len(Services)}
    ELSE {arg.preferredService}

\* The unexpired models the cache holds for the organ and score of the call.
CachedFor(c, s, arg, t) ==
    { rec \in { getItem(s, Prefix(c) \o generateCacheKey(arg.organName,
                                          arg.healthScore, svc))
                : svc \in Candidates(arg) } :
        rec.kind = "object" /\ t <= rec.expiresAt }

\* C19: generateAIModel looks in the model cache before it sends any request,
\* with or without preferredService: when the cache holds an unexpired model
\* for the organ and score, the call returns it (cached, estimatedTime 0) and
\* no request leaves.
C19_CacheBeforeRequest ==
    [][ (last'.op = "generate" /\ CachedFor(Ctx, ls, last'.arg, now) # {})
        => /\ last'.note # "unavailable"
           /\ last'.val.cached
           /\ last'.val.estimatedTime = 0
           /\ last'.ev = <<>>
           /\ \E rec \in CachedFor(Ctx, ls, last'.arg, now) :
                 last'.val.modelUrl = rec.modelUrl ]_vars

\* C20: the eviction loop of store ends, whatever the index lists (keys with
\* no record, with a record that does not parse): every store call returns.
C20_EvictionTerminates == last.op = "store" => ~last.hang

\* C21: a store evicts only while the total is over the budget: when the
\* indexed entries weigh the budget or less before the call (exactly the
\* budget included), the call evicts nothing.
C21_NoEvictionAtBudget ==
    [][ (last'.op = "store" /\ ~getCacheSize(Ctx, ls).thrown
           /\ getCacheSize(Ctx, ls).val <= Budget(Ctx))
            => last'.ev = <<>> ]_vars

\* C22: whatever the entry write of a store throws (QuotaExceededError or
\* another error), the store runs one expiry sweep and writes once more
\* before it returns false.
C22_EveryWriteErrorRetried ==
    (last.op = "store" /\ last.err # "none")
        => last.sweeps = 1 /\ last.attempts = 2

\* C23: whenever a store returns true, the record it wrote is in storage
\* under the key and the key is registered in the index.
C23_StoredAndRegistered ==
    (last.op = "store" /\ last.ret)
        => /\ Entry(last.key) = last.val
           /\ last.key \in IndexedKeys(Ctx, ls)

\* C24: a lookup that finds the record of its key past expiresAt removes the
\* record and takes the key out of the index before it reports absent; the
\* record and the index membership of every other key stay as they were.
C24_LazyExpiry ==
    [][ (last'.op = "lookup" /\ last'.note = "expired")
            => /\ last'.val = Null
               /\ getItem(ls', Prefix(Ctx) \o last'.key) = Null
               /\ last'.key \notin IndexedKeys(Ctx, ls')
               /\ \A k \in CacheKeys(Ctx) \ {last'.key} :
                     /\ getItem(ls', Prefix(Ctx) \o k) = getItem(ls, Prefix(Ctx) \o k)
                     /\ (k \in IndexedKeys(Ctx, ls')) = (k \in IndexedKeys(Ctx, ls))
      ]_vars

\* C25: after clearAll has returned true the cache holds no entry: the index
\* is empty, a lookup of any key reports absent, and stats reports zero
\* entries and zero bytes.
C25_ClearAllEmpties ==
    (last.op = "clearAll" /\ last.ret)
        => /\ IndexedKeys(Ctx, ls) = {}
           /\ \A k \in CacheKeys(Ctx) :
                 \A o \in getCached(Ctx, ls, k, now) : o.val = Null
           /\ \A st \in getCacheStats(Ctx, ls, now) :
                 st.ret.total = 0 /\ st.ret.totalSizeMB100 = 0

(***************************************************************************)
(* The entry of an image is stored under DIAGNOSIS_CACHE_PREFIX followed   *)
(* by its hash (lines 189-191, 210), and deleteCachedDiagnosis takes any   *)
(* string as its key (line 288).  SpecCollide adds the calls made with the *)
(* image "ocvdhc", whose hash is 31323561, "index" in radix 36.            *)
(***************************************************************************)
IndexImage == <<111, 99, 118, 100, 104, 99>>

StoreColliding ==
    /\ Idle
    /\ inst = "diagnosis"
    /\ \E d \in Diagnoses :
         \E o \in cacheDiagnosis(Ctx, ls, d.organ, IndexImage, d, now) :
            Stored(o, generateImageHash(IndexImage), d)
    /\ UNCHANGED <<inst, writes, now>>

DeleteColliding ==
    /\ Idle
    /\ inst = "diagnosis"
    /\ LET key == generateImageHash(IndexImage)
       IN  \E o \in deleteCached(Ctx, ls, key) :
              /\ ls' = o.ls
              /\ last' = [Call("delete", key) EXCEPT
                            !.ret = o.ret, !.exc = o.thrown,
                            !.note = Presence(Ctx, ls, key)]
    /\ UNCHANGED <<inst, writes, now>>

NextCollide ==
    \/ Next
    \/ StoreColliding
    \/ DeleteColliding

SpecCollide == Init /\ [][NextCollide]_vars

\* C30: in the diagnosis cache the storage key of an entry (the prefix and
\* the hash, or the key given to delete) is never the storage key of the
\* index record, so after a store or a delete the index record still holds
\* an index or is absent.
C30_EntryKeyNotIndexKey ==
    (inst = "diagnosis" /\ last.op \in {"store", "delete"})
        => /\ Prefix(Ctx) \o last.key # IndexKey(Ctx)
           /\ getItem(ls, IndexKey(Ctx)).kind \in {"null", "array"}

\* C26: a delete of key K changes nothing but K: every other key keeps its
\* entry record and stays in, or out of, the index as it was, whatever the
\* index record holds.
C26_DeleteFrame ==
    [][ last'.op = "delete"
            => \A k \in CacheKeys(Ctx) \ {last'.key} :
                  /\ getItem(ls', Prefix(Ctx) \o k) = getItem(ls, Prefix(Ctx) \o k)
                  /\ (k \in IndexedKeys(Ctx, ls')) = (k \in IndexedKeys(Ctx, ls))
      ]_vars

\* C27: a store that returns false has written no entry record and no index
\* key: every record is the one that was there or is gone, and the index
\* lists no key it did not list before.
C27_FailedStoreWritesNothing ==
    [][ (last'.op = "store" /\ ~last'.ret /\ ~last'.hang)
            => /\ \A k \in CacheKeys(Ctx) \cup {last'.key} :
                     getItem(ls', Prefix(Ctx) \o k)
                        \in {getItem(ls, Prefix(Ctx) \o k), Null}
               /\ IndexedKeys(Ctx, ls') \subseteq IndexedKeys(Ctx, ls)
      ]_vars

\* The readable indexed entries other than the keys in gone.
ReadableBut(c, s, gone) ==
    {k \in IndexedKeys(c, s) \ gone : getItem(s, Prefix(c) \o k).kind = "object"}

\* C28: the entries' creation times and expiry times are in the same order,
\* so the eviction loop of a store never removes an unexpired entry while an
\* expired entry is still indexed.
C28_ExpiredEvictedFirst ==
    [][ /\ \A k1, k2 \in ReadableBut(Ctx, ls', {}) :
             LET e1 == getItem(ls', Prefix(Ctx) \o k1)
                 e2 == getItem(ls', Prefix(Ctx) \o k2)
             IN  (e1.timestamp <= e2.timestamp) <=> (e1.expiresAt <= e2.expiresAt)
        /\ (last'.op = "store" /\ ~last'.hang)
              => \A i \in 1..Len(last'.ev) :
                    (\E k \in ReadableBut(Ctx, ls, {last'.ev[j] : j \in 1..(i - 1)}) :
                        now > Entry(k).expiresAt)
                    => now > Entry(last'.ev[i]).expiresAt ]_vars

\* A store has evicted an expired entry and left an unexpired one that was
\* there before it.
C28_Witness ==
    /\ last.op = "store" /\ last.n >= 1
    /\ \E k \in ReadableBut(Ctx, ls, {last.key}) : now <= Entry(k).expiresAt

(***************************************************************************)
(* Images longer than twice sampleSize: 10002 characters "b", but for one  *)
(* "a".  In A it is at offset 5000, which none of the three samples        *)
(* covers (the middle sample starts at offset 5001); in C it is at offset  *)
(* 4999, inside the first sample; B has none.  SpecLong runs the diagnosis *)
(* cache, over a storage that accepts every write, on these images.        *)
(***************************************************************************)
LongNames == {"A", "B", "C"}

LongImage ==
    [name \in LongNames |->
        [i \in 1..(2 * sampleSize + 2) |->
            CASE name = "A" /\ i = sampleSize + 1 -> 97
              [] name = "C" /\ i = sampleSize -> 97
              [] OTHER -> 98]]

\* The length of the input and the three substrings the hash reads.
Sampled(imageData) ==
    LET dataLength == Len(imageData)
        half == dataLength \div 2
    IN  << dataLength,
           substring(imageData, 0, sampleSize),
           substring(imageData, half, half + sampleSize),
           substring(imageData, dataLength - sampleSize, dataLength) >>

LongSampled == [name \in LongNames |-> Sampled(LongImage[name])]

LongKey == [name \in LongNames |-> generateImageHash(LongImage[name])]

InitLong == Init /\ inst = "diagnosis" /\ writes = Reliable

StoreLong ==
    /\ Idle
    /\ \E name \in LongNames \ {"C"}, d \in Diagnoses :
         \E o \in cacheDiagnosis(Ctx, ls, d.organ, LongImage[name], d, now) :
            Stored(o, LongKey[name], [image |-> name, diagnosis |-> d])
    /\ UNCHANGED <<inst, writes, now>>

LookupLong ==
    /\ Idle
    /\ \E name \in LongNames :
         \E o \in getCachedDiagnosis(Ctx, ls, LongImage[name], now) :
            Looked(o, LongKey[name])
    /\ UNCHANGED <<inst, writes, now>>

NextLong ==
    \/ StoreLong
    \/ LookupLong
    \/ Delete
    \/ ClearExpired
    \/ ClearAll
    \/ GetAll
    \/ Stats
    \/ Size
    \/ Tick

SpecLong == InitLong /\ [][NextLong]_vars

====
